---- MODULE Spec2Model ----
(***************************************************************************)
(* State-machine model of server.py: the per-project memory store served   *)
(* over a REST adapter and a JSON-RPC ("MCP") adapter.                     *)
(*                                                                         *)
(* A Python str is a sequence of one-character strings; a list[str] is a   *)
(* sequence of such sequences.  An Optional value is a record with a       *)
(* `present` flag (None is [present |-> FALSE]).                           *)
(***************************************************************************)
EXTENDS Integers, Sequences, FiniteSets, TLC

VARIABLES
    collections,   \* the chromadb client's collections: name -> (id -> row)
    _collections,  \* server._collections: codename -> collection handle (its name)
    _client,       \* server._client: "None" until _get_client builds it
    _TEST_MODE,    \* server._TEST_MODE
    nextId,        \* number of uuid4 values drawn so far; the next one is nextId + 1
    pc,            \* "idle", "received" (a request waits for its handler), "done" (its response waits to be read)
    request,       \* the request in flight
    result,        \* what that handler returned, raised or handed to ok()/err()
    response,      \* the HTTP response emitted for it
    codecIn,       \* tag codec round trip: the tag list under test
    codecRaw,      \* tag codec round trip: the encoded metadata
    codecOut,      \* tag codec round trip: the decoded tag list
    codecPc,       \* tag codec round trip: "in" -> "encoded" -> "decoded"
    threads        \* concurrent calls: thread -> the frame of its update_memory or delete_memory call

vars == <<collections, _collections, _client, _TEST_MODE, nextId, pc, request, result, response, codecIn, codecRaw, codecOut, codecPc, threads>>

memVars == <<collections, _collections, _client, _TEST_MODE, nextId, pc, request, result, response, threads>>

codecVars == <<codecIn, codecRaw, codecOut, codecPc>>

-----------------------------------------------------------------------------
(* Bounds *)

\* uuid4 values the process draws (records ever created)
MaxIds == 2

\* longest tag string of the codec round trip
MaxTagLen == 2

\* longest tag list of the codec round trip
MaxTags == 2

-----------------------------------------------------------------------------
(* Python values *)

None == [present |-> FALSE]

NoRequest == [handler |-> ""]

NoResult == [kind |-> "none"]

NoResponse == [status |-> 0, body |-> None]

Some(v) == [present |-> TRUE, value |-> v]

\* characters str.strip() removes
Whitespace == {" "}

\* str.lower() on the characters that occur
LowerChar(ch) == CASE ch = "A" -> "a" [] ch = "B" -> "b" [] OTHER -> ch

lower(s) == [i \in 1..Len(s) |-> LowerChar(s[i])]

RECURSIVE lstrip(_)
lstrip(s) == IF s # <<>> /\ Head(s) \in Whitespace THEN lstrip(Tail(s)) ELSE s

RECURSIVE rstrip(_)
rstrip(s) == IF s # <<>> /\ s[Len(s)] \in Whitespace THEN rstrip(SubSeq(s, 1, Len(s) - 1)) ELSE s

strip(s) == rstrip(lstrip(s))

\* sep.join(parts)
RECURSIVE join(_, _)
join(sep, parts) ==
    IF parts = <<>> THEN <<>>
    ELSE IF Len(parts) = 1 THEN parts[1]
    ELSE parts[1] \o sep \o join(sep, Tail(parts))

\* s.split(ch): always at least one segment, empty segments kept
RECURSIVE split(_, _)
split(s, ch) ==
    IF \A i \in 1..Len(s) : s[i] # ch THEN <<s>>
    ELSE LET i == CHOOSE k \in 1..Len(s) : s[k] = ch /\ \A j \in 1..(k - 1) : s[j] # ch
         IN <<SubSeq(s, 1, i - 1)>> \o split(SubSeq(s, i + 1, Len(s)), ch)

\* [f(x) for x in seq if keep(x)] building blocks
RECURSIVE SelectNonEmpty(_)
SelectNonEmpty(seq) ==
    IF seq = <<>> THEN <<>>
    ELSE IF Head(seq) # <<>> THEN <<Head(seq)>> \o SelectNonEmpty(Tail(seq))
    ELSE SelectNonEmpty(Tail(seq))

-----------------------------------------------------------------------------
(* Tag normalisation and the tag codec *)

\* [t.strip() for t in tags if t and t.strip()]; None and [] give []
_normalize_tags(tags) ==
    IF ~tags.present \/ tags.value = <<>> THEN <<>>
    ELSE SelectNonEmpty([i \in 1..Len(tags.value) |-> strip(tags.value[i])])

\* the encoding with the tags joined by ";" instead of ","
_tags_to_metadata_semicolon(tags) == [tags |-> join(<<";">>, tags)]

_tags_to_metadata(tags) == [tags |-> join(<<",">>, tags)]

\* metadata is an Optional dict holding "tags"
_metadata_to_tags(metadata) ==
    IF ~metadata.present THEN <<>>
    ELSE LET raw == metadata.value.tags
         IN IF raw = <<>> THEN <<>> ELSE SelectNonEmpty(split(raw, ","))

_serialize_memory(memory_id, document, metadata) ==
    [id |-> memory_id, content |-> document, tags |-> _metadata_to_tags(metadata)]

-----------------------------------------------------------------------------
(* The external store (chromadb), as server.py uses it.  A collection is a  *)
(* function from record id to a row [document, metadata]; the client holds *)
(* a function from collection name to collection.                          *)

EmptyFcn == <<>>

Remove(f, k) == [x \in DOMAIN f \ {k} |-> f[x]]

\* client.get_or_create_collection(name=...): idempotent by name
get_or_create_collection(colls, name) ==
    IF name \in DOMAIN colls THEN colls ELSE colls @@ (name :> EmptyFcn)

\* collection.add(documents=[d], metadatas=[m], ids=[i])
collection_add(colls, name, id, document, metadata) ==
    [colls EXCEPT ![name] = IF id \in DOMAIN @ THEN @ ELSE @ @@ (id :> [document |-> document, metadata |-> metadata])]

\* an update that writes the row whether or not the id exists (an upsert)
collection_update_upsert(colls, name, id, document, metadata) ==
    [colls EXCEPT ![name] = [x \in DOMAIN @ \cup {id} |-> IF x = id THEN [document |-> document, metadata |-> metadata] ELSE @[x]]]

\* collection.update(ids=[i], documents=[d], metadatas=[m]): ids that do not exist are skipped
collection_update(colls, name, id, document, metadata) ==
    [colls EXCEPT ![name] = IF id \in DOMAIN @ THEN [@ EXCEPT ![id] = [document |-> document, metadata |-> metadata]] ELSE @]

\* collection.delete(ids=[i])
collection_delete(colls, name, id) == [colls EXCEPT ![name] = Remove(@, id)]

\* collection.get(ids=[i]): the ids found, with their rows
collection_get(colls, name, id) ==
    IF id \in DOMAIN colls[name] THEN <<[id |-> id, row |-> colls[name][id]]>> ELSE <<>>

\* every ordering of a finite set
Orderings(S) == {q \in [1..Cardinality(S) -> S] : \A i, j \in 1..Cardinality(S) : q[i] = q[j] => i = j}

\* collection.get(): every row, in an order the store chooses
collection_get_all(colls, name) == Orderings(DOMAIN colls[name])

Min(a, b) == IF a < b THEN a ELSE b

\* collection.query(query_texts=[q], n_results=n), n >= 1: the n nearest ids,
\* nearest first; which ones they are is the embedding function's business
collection_query(colls, name, n) ==
    LET ids == DOMAIN colls[name]
        k == Min(n, Cardinality(ids))
    IN {q \in [1..k -> ids] : \A i, j \in 1..k : q[i] = q[j] => i = j}

-----------------------------------------------------------------------------
(* The collection registry.  Operations take the process state as a record *)
(* w = [colls, cache, client, next] and return [w |-> state after, ret |-> *)
(* the Python return value].                                               *)

World == [colls |-> collections, cache |-> _collections, client |-> _client, next |-> nextId]

Commit(w) ==
    /\ collections' = w.colls
    /\ _collections' = w.cache
    /\ _client' = w.client
    /\ _TEST_MODE' = _TEST_MODE
    /\ nextId' = w.next

COLLECTION_PREFIX == <<"project_memory_">>

CollectionName(codename) == COLLECTION_PREFIX \o codename

\* Each operation is written as a chain of operators, one per statement
\* that uses the value of the one before it.

\* _client is built once: a PersistentClient if persistent, else an in-memory Client
_get_client(w, persistent) ==
    IF w.client # "None" THEN [w |-> w, ret |-> w.client]
    ELSE IF persistent THEN [w |-> [w EXCEPT !.client = "PersistentClient"], ret |-> "PersistentClient"]
    ELSE [w |-> [w EXCEPT !.client = "Client"], ret |-> "Client"]

\* client.get_or_create_collection(name=f"project_memory_{codename}", ...) on the client c.ret
_build_collection_create(c, codename) ==
    [w |-> [c.w EXCEPT !.colls = get_or_create_collection(@, CollectionName(codename))],
     ret |-> CollectionName(codename)]

\* called with persistent=True by get_collection
_build_collection(w, codename) == _build_collection_create(_get_client(w, TRUE), codename)

\* the characters of [a-z0-9_-] among those that occur
CodenameChars == {"a", "b", "0", "_", "-"}

\* the check accepting every non-empty value
_normalize_codename_check_nonempty(value) == [ok |-> value # <<>>, value |-> value]

\* value = (codename or "").strip().lower(); ok is FALSE where the code raises ValueError
_normalize_codename_check(value) ==
    [ok |-> value # <<>> /\ \A i \in 1..Len(value) : value[i] \in CodenameChars, value |-> value]

_normalize_codename(codename) == _normalize_codename_check(lower(strip(codename)))

\* _collections[codename] = (the collection b.ret just built); return it
get_collection_cache(b, codename) == [w |-> [b.w EXCEPT !.cache = @ @@ (codename :> b.ret)], ret |-> b.ret]

\* get_collection answering with a cached collection whatever the codename
get_collection_lookup_anycached(w, codename) ==
    IF DOMAIN w.cache # {} THEN [w |-> w, ret |-> w.cache[CHOOSE c \in DOMAIN w.cache : TRUE]]
    ELSE get_collection_cache(_build_collection(w, codename), codename)

\* codename is the normalized codename
get_collection_lookup(w, codename) ==
    IF codename \in DOMAIN w.cache THEN [w |-> w, ret |-> w.cache[codename]]
    ELSE get_collection_cache(_build_collection(w, codename), codename)

get_collection(w, codename) == get_collection_lookup(w, _normalize_codename(codename).value)

-----------------------------------------------------------------------------
(* Memory operations *)

\* data = (collection g.ret).get(ids=[memory_id]), serialized
_get_memory_by_id_get(g, memory_id) ==
    [w |-> g.w,
     ret |-> IF collection_get(g.w.colls, g.ret, memory_id) = <<>> THEN None
             ELSE Some(_serialize_memory(memory_id, g.w.colls[g.ret][memory_id].document, Some(g.w.colls[g.ret][memory_id].metadata)))]

_get_memory_by_id(w, codename, memory_id) == _get_memory_by_id_get(get_collection(w, codename), memory_id)

\* (collection g.ret).add(documents=[content], metadatas=[_tags_to_metadata(tags)], ids=[memory_id])
store_memory_add(g, memory_id, content, tags) ==
    [g.w EXCEPT !.colls = collection_add(@, g.ret, memory_id, content, _tags_to_metadata(tags))]

\* memory_id = str(uuid.uuid4()): a value not drawn before
store_memory(w, codename, content, tags) ==
    _get_memory_by_id(store_memory_add(get_collection([w EXCEPT !.next = @ + 1], codename), w.next + 1, content, tags),
                      codename, w.next + 1)

\* the rows of the collection serialized in the order `order` gives their ids
SerializeAll(colls, name, order) ==
    [i \in 1..Len(order) |-> _serialize_memory(order[i], colls[name][order[i]].document, Some(colls[name][order[i]].metadata))]

\* what collection.get() can return: the ids in an order the store chooses
ListOrders_get(g) == collection_get_all(g.w.colls, g.ret)

ListOrders(w, codename) == ListOrders_get(get_collection(w, codename))

list_memories_get(g, order) == [w |-> g.w, ret |-> SerializeAll(g.w.colls, g.ret, order)]

\* list_memories, for the order the store returned
list_memories(w, codename, order) == list_memories_get(get_collection(w, codename), order)

\* what collection.query can return for n_results: chromadb rejects n_results <= 0
QueryHits_query(g, n_results) == IF n_results <= 0 THEN {<<>>} ELSE collection_query(g.w.colls, g.ret, n_results)

QueryHits(w, codename, n_results) == QueryHits_query(get_collection(w, codename), n_results)

search_memories_query(g, n_results, hits) ==
    IF n_results <= 0 THEN [w |-> g.w, raised |-> TRUE, ret |-> <<>>]
    ELSE [w |-> g.w, raised |-> FALSE, ret |-> SerializeAll(g.w.colls, g.ret, hits)]

\* search_memories, for the ids `hits` the store's query returned; raised is
\* TRUE where the store's query raises
search_memories(w, codename, query, n_results, hits) ==
    search_memories_query(get_collection(w, codename), n_results, hits)

\* the write done with the store's upsert, which adds an id that does not exist
update_memory_update_upsert(g, memory_id, new_content, new_tags) ==
    [g.w EXCEPT !.colls = collection_update_upsert(@, g.ret, memory_id, new_content, _tags_to_metadata(new_tags))]

\* (collection g.ret).update(ids=[memory_id], documents=[new_content], metadatas=[_tags_to_metadata(new_tags)])
update_memory_update(g, memory_id, new_content, new_tags) ==
    [g.w EXCEPT !.colls = collection_update(@, g.ret, memory_id, new_content, _tags_to_metadata(new_tags))]

\* update_memory writing the record when the lookup found none (an upsert)
update_memory_existing_upsert(e, codename, memory_id, content, tags) ==
    _get_memory_by_id(
        IF e.ret.present
        THEN update_memory_update(get_collection(e.w, codename), memory_id,
                                  IF content.present THEN content.value ELSE e.ret.value.content,
                                  IF tags.present THEN _normalize_tags(tags) ELSE e.ret.value.tags)
        ELSE store_memory_add(get_collection(e.w, codename), memory_id,
                              IF content.present THEN content.value ELSE <<>>,
                              _normalize_tags(tags)),
        codename, memory_id)

\* update_memory appending the supplied tags to the existing ones (a merge)
update_memory_existing_merge(e, codename, memory_id, content, tags) ==
    IF ~e.ret.present THEN [w |-> e.w, ret |-> None]
    ELSE _get_memory_by_id(
             update_memory_update(get_collection(e.w, codename), memory_id,
                                  IF content.present THEN content.value ELSE e.ret.value.content,
                                  e.ret.value.tags \o _normalize_tags(tags)),
             codename, memory_id)

\* e is the result of the lookup of the existing record
update_memory_existing(e, codename, memory_id, content, tags) ==
    IF ~e.ret.present THEN [w |-> e.w, ret |-> None]
    ELSE _get_memory_by_id(
             update_memory_update(get_collection(e.w, codename), memory_id,
                                  IF content.present THEN content.value ELSE e.ret.value.content,
                                  IF tags.present THEN _normalize_tags(tags) ELSE e.ret.value.tags),
             codename, memory_id)

update_memory(w, codename, memory_id, content, tags) ==
    update_memory_existing(_get_memory_by_id(w, codename, memory_id), codename, memory_id, content, tags)

\* delete_memory reporting success without the store's delete
delete_memory_delete_skipped(g, memory_id) == [w |-> g.w, ret |-> TRUE]

\* (collection g.ret).delete(ids=[memory_id])
delete_memory_delete(g, memory_id) == [w |-> [g.w EXCEPT !.colls = collection_delete(@, g.ret, memory_id)], ret |-> TRUE]

delete_memory_existing(e, codename, memory_id) ==
    IF ~e.ret.present THEN [w |-> e.w, ret |-> FALSE]
    ELSE delete_memory_delete(get_collection(e.w, codename), memory_id)

delete_memory(w, codename, memory_id) == delete_memory_existing(_get_memory_by_id(w, codename, memory_id), codename, memory_id)

\* the characters of codenames in the order of their code points
CharOrder == <<"-", "0", "_", "a", "b">>

Ord(ch) == CHOOSE i \in 1..Len(CharOrder) : CharOrder[i] = ch

\* s < t for Python strings
RECURSIVE StrLess(_, _)
StrLess(s, t) ==
    IF t = <<>> THEN FALSE
    ELSE IF s = <<>> THEN TRUE
    ELSE IF Head(s) # Head(t) THEN Ord(Head(s)) < Ord(Head(t))
    ELSE StrLess(Tail(s), Tail(t))

\* sorted(names) for a set of strings
sorted(names) == CHOOSE q \in Orderings(names) : \A i, j \in 1..Len(q) : i < j => StrLess(q[i], q[j])

\* the codenames of the collections whose name starts with "project_memory_"
PrefixedCodenames(colls) == {Tail(name) : name \in {n \in DOMAIN colls : <<Head(n)>> = COLLECTION_PREFIX}}

\* c is the result of _get_client; client.list_collections() raises when enumeration_fails
list_project_codenames_list(c, names, enumeration_fails) ==
    [w |-> c.w,
     ret |-> IF enumeration_fails THEN sorted(names) ELSE sorted(names \cup PrefixedCodenames(c.w.colls))]

\* names starts as the cache's keys in test mode only
list_project_codenames(w, test_mode, enumeration_fails) ==
    list_project_codenames_list(_get_client(w, ~test_mode), IF test_mode THEN DOMAIN w.cache ELSE {}, enumeration_fails)

-----------------------------------------------------------------------------
(* Request inputs *)

CodenameInputs == {<<"a">>, <<" ", "A">>, <<"b">>, <<"!">>}

\* tag lists: none; two tags to trim around a blank one; one tag holding a comma
NoTags == <<>>

TwoTags == << <<" ", "a">>, <<" ">>, <<"b">> >>

CommaTag == << <<"a", ",", "b">> >>

CommaSpaceTag == << <<"a", ",", " ", "b">> >>

Str_empty == <<>>

Str_blank == <<" ">>

Str_x == <<" ", "x", " ">>

Str_y == <<"y">>

\* StoreRequest bodies
StoreBodies ==
    { [content |-> Str_empty, tags |-> NoTags],
      [content |-> Str_blank, tags |-> TwoTags],
      [content |-> Str_x, tags |-> NoTags],
      [content |-> Str_x, tags |-> TwoTags],
      [content |-> Str_x, tags |-> CommaTag] }

\* UpdateRequest bodies
UpdateBodies ==
    { [content |-> None, tags |-> None],
      [content |-> Some(Str_blank), tags |-> None],
      [content |-> Some(Str_y), tags |-> None],
      [content |-> None, tags |-> Some(NoTags)],
      [content |-> None, tags |-> Some(TwoTags)],
      [content |-> None, tags |-> Some(CommaTag)],
      [content |-> Some(Str_x), tags |-> Some(NoTags)] }

\* (query, n_results) of a REST search
SearchParams ==
    {[query |-> Str_blank, n_results |-> 1]} \cup {[query |-> <<"q">>, n_results |-> n] : n \in 0..MaxIds}

IdInputs == 1..MaxIds

\* arguments of tools/call memory.store
StoreArgs ==
    { [content |-> None, tags |-> None],
      [content |-> Some(Str_blank), tags |-> Some(TwoTags)],
      [content |-> Some(Str_x), tags |-> None],
      [content |-> Some(Str_x), tags |-> Some(TwoTags)],
      [content |-> Some(Str_x), tags |-> Some(CommaTag)] }

\* arguments of tools/call memory.search
SearchArgs ==
    { [query |-> None, n_results |-> None],
      [query |-> Some(Str_blank), n_results |-> Some(1)],
      [query |-> Some(<<"q">>), n_results |-> None] }
    \cup {[query |-> Some(<<"q">>), n_results |-> Some(n)] : n \in 0..MaxIds}

\* arguments of tools/call memory.update: id is None for an absent or blank id
UpdateArgs ==
    {[id |-> None, content |-> Some(Str_y), tags |-> None]}
    \cup {[id |-> Some(i), content |-> b.content, tags |-> b.tags] : i \in IdInputs, b \in UpdateBodies}

\* arguments of tools/call memory.delete
DeleteArgs == {[id |-> None]} \cup {[id |-> Some(i)] : i \in IdInputs}

Optional(S) == {None} \cup {Some(v) : v \in S}

\* n_results: int = 5
DEFAULT_N_RESULTS == 5

-----------------------------------------------------------------------------
(* REST adapter *)

\* raise HTTPException(status_code=..., detail=...)
HTTPException(status_code, detail) ==
    /\ result' = [kind |-> "HTTPException", status_code |-> status_code, detail |-> detail]
    /\ response' = [status |-> status_code, body |-> Some([detail |-> detail])]

\* return value
Return(value) ==
    /\ result' = [kind |-> "return", value |-> value]
    /\ response' = [status |-> 200, body |-> Some(value)]

\* an exception of the store that no handler catches
InternalError ==
    /\ result' = [kind |-> "raise"]
    /\ response' = [status |-> 500, body |-> None]

Untouched == UNCHANGED <<collections, _collections, _client, _TEST_MODE, nextId>>

api_list_memories(codename) ==
    LET cn == _normalize_codename(codename)
    IN IF ~cn.ok THEN HTTPException(400, "invalid codename") /\ Untouched
       ELSE \E order \in ListOrders(World, cn.value) :
                \E r \in {list_memories(World, cn.value, order)} :
                    Commit(r.w) /\ Return(r.ret)

api_search_memories(codename, query, n_results) ==
    LET cn == _normalize_codename(codename)
    IN IF ~cn.ok THEN HTTPException(400, "invalid codename") /\ Untouched
       ELSE IF strip(query) = <<>> THEN HTTPException(400, "query is required") /\ Untouched
       ELSE \E hits \in QueryHits(World, cn.value, n_results) :
                \E r \in {search_memories(World, cn.value, strip(query), n_results, hits)} :
                   /\ Commit(r.w)
                   /\ IF r.raised THEN InternalError
                      ELSE Return([query |-> query, results |-> r.ret])

api_get_memory(codename, memory_id) ==
    LET cn == _normalize_codename(codename)
    IN IF ~cn.ok THEN HTTPException(400, "invalid codename") /\ Untouched
       ELSE \E r \in {_get_memory_by_id(World, cn.value, memory_id)} :
               /\ Commit(r.w)
               /\ IF ~r.ret.present THEN HTTPException(404, "memory not found")
                  ELSE Return(r.ret.value)

\* api_create_memory without its check of the trimmed content
api_create_memory_unchecked(codename, body) ==
    LET cn == _normalize_codename(codename)
        content == strip(body.content)
        tags == _normalize_tags(Some(body.tags))
    IN IF ~cn.ok THEN HTTPException(400, "invalid codename") /\ Untouched
       ELSE \E r \in {store_memory(World, cn.value, content, tags)} :
                Commit(r.w) /\ Return(r.ret.value)

\* body: StoreRequest(content: str, tags: list[str] = [])
api_create_memory(codename, body) ==
    LET cn == _normalize_codename(codename)
        content == strip(body.content)
        tags == _normalize_tags(Some(body.tags))
    IN IF ~cn.ok THEN HTTPException(400, "invalid codename") /\ Untouched
       ELSE IF content = <<>> THEN HTTPException(400, "content is required") /\ Untouched
       ELSE \E r \in {store_memory(World, cn.value, content, tags)} :
                Commit(r.w) /\ Return(r.ret.value)

\* api_update_memory without its check that a field is supplied
api_update_memory_unchecked(codename, memory_id, body) ==
    LET cn == _normalize_codename(codename)
        content == IF body.content.present THEN Some(strip(body.content.value)) ELSE None
        tags == IF body.tags.present THEN Some(_normalize_tags(body.tags)) ELSE None
    IN IF ~cn.ok THEN HTTPException(400, "invalid codename") /\ Untouched
       ELSE \E r \in {update_memory(World, cn.value, memory_id, content, tags)} :
               /\ Commit(r.w)
               /\ IF ~r.ret.present THEN HTTPException(404, "memory not found")
                  ELSE Return(r.ret.value)

\* body: UpdateRequest(content: Optional[str] = None, tags: Optional[list[str]] = None)
api_update_memory(codename, memory_id, body) ==
    LET cn == _normalize_codename(codename)
        content == IF body.content.present THEN Some(strip(body.content.value)) ELSE None
        tags == IF body.tags.present THEN Some(_normalize_tags(body.tags)) ELSE None
    IN IF ~cn.ok THEN HTTPException(400, "invalid codename") /\ Untouched
       ELSE IF ~body.content.present /\ ~body.tags.present
            THEN HTTPException(400, "content or tags is required") /\ Untouched
       ELSE \E r \in {update_memory(World, cn.value, memory_id, content, tags)} :
               /\ Commit(r.w)
               /\ IF ~r.ret.present THEN HTTPException(404, "memory not found")
                  ELSE Return(r.ret.value)

api_delete_memory(codename, memory_id) ==
    LET cn == _normalize_codename(codename)
    IN IF ~cn.ok THEN HTTPException(400, "invalid codename") /\ Untouched
       ELSE \E r \in {delete_memory(World, cn.value, memory_id)} :
               /\ Commit(r.w)
               /\ IF ~r.ret THEN HTTPException(404, "memory not found")
                  ELSE Return([deleted |-> TRUE])

\* GET /api/projects; enumeration_fails: the store's list_collections raises during this request
api_list_projects(enumeration_fails) ==
    \E r \in {list_project_codenames(World, _TEST_MODE, enumeration_fails)} :
        Commit(r.w) /\ Return(r.ret)

\* POST /api/projects; payload.codename is None when the payload holds no str codename
api_create_project(payload) ==
    IF ~payload.codename.present THEN HTTPException(400, "codename is required") /\ Untouched
    ELSE IF ~_normalize_codename(payload.codename.value).ok THEN HTTPException(400, "invalid codename") /\ Untouched
    ELSE \E r \in {get_collection(World, payload.codename.value)} :
            Commit(r.w) /\ Return([codename |-> _normalize_codename(payload.codename.value).value])

-----------------------------------------------------------------------------
(* JSON-RPC adapter: mcp(codename, request).  msg is the request's JSON:     *)
(* [method, id, params]; rpc_id = msg.get("id") is None for a notification. *)

tool_text(text, is_error) == [content |-> <<[type |-> "text", text |-> text]>>, isError |-> is_error]

\* ok(result)
ok(rpc_id, res) ==
    /\ result' = [kind |-> "ok", value |-> res]
    /\ response' = IF ~rpc_id.present THEN [status |-> 204, body |-> None]
                   ELSE [status |-> 200, body |-> Some([jsonrpc |-> "2.0", id |-> rpc_id, result |-> res])]

\* err(code, message)
err(rpc_id, code, message) ==
    /\ result' = [kind |-> "err", code |-> code, message |-> message]
    /\ response' = IF ~rpc_id.present THEN [status |-> 204, body |-> None]
                   ELSE [status |-> 200, body |-> Some([jsonrpc |-> "2.0", id |-> rpc_id, error |-> [code |-> code, message |-> message]])]

\* return Response(status_code=204)
NoContent ==
    /\ result' = [kind |-> "no content"]
    /\ response' = [status |-> 204, body |-> None]

\* args.get(key) or default, for str values
OrStr(opt, default) == IF opt.present /\ opt.value # <<>> THEN opt.value ELSE default

\* args.get(key) or default, for int values
OrInt(opt, default) == IF opt.present /\ opt.value # 0 THEN opt.value ELSE default

\* args.get("tags") or []
OrList(opt) == IF opt.present /\ opt.value # <<>> THEN opt ELSE Some(<<>>)

TOOLS == <<"memory.store", "memory.search", "memory.update", "memory.delete", "memory.all">>

AllUri(codename) == <<"memory://project_memory/">> \o codename \o <<"/all">>

\* tools/call, name == "memory.store"
mcp_memory_store(codename, rpc_id, args) ==
    LET content == strip(OrStr(args.content, <<>>))
        tags == _normalize_tags(OrList(args.tags))
    IN IF content = <<>> THEN ok(rpc_id, tool_text(<<"content is required">>, TRUE)) /\ Untouched
       ELSE \E r \in {store_memory(World, codename, content, tags)} :
               /\ Commit(r.w)
               /\ ok(rpc_id, tool_text(<<"stored id=", r.ret.value.id, " tags=", r.ret.value.tags>>, FALSE))

\* tools/call, name == "memory.search"
mcp_memory_search(codename, rpc_id, args) ==
    LET query == strip(OrStr(args.query, <<>>))
        n_results == OrInt(args.n_results, DEFAULT_N_RESULTS)
    IN IF query = <<>> THEN ok(rpc_id, tool_text(<<"query is required">>, TRUE)) /\ Untouched
       ELSE \E hits \in QueryHits(World, codename, n_results) :
                \E r \in {search_memories(World, codename, query, n_results, hits)} :
                   /\ Commit(r.w)
                   /\ IF r.raised THEN InternalError
                      ELSE ok(rpc_id, [content |-> <<[type |-> "text", text |-> r.ret]>>,
                                       structuredContent |-> [query |-> query, results |-> r.ret],
                                       isError |-> FALSE])

\* tools/call, name == "memory.update"; args.id is None for an absent or blank id
mcp_memory_update(codename, rpc_id, args) ==
    LET content == IF args.content.present THEN Some(strip(args.content.value)) ELSE None
        tags == IF args.tags.present THEN Some(_normalize_tags(args.tags)) ELSE None
    IN IF ~args.id.present THEN ok(rpc_id, tool_text(<<"id is required">>, TRUE)) /\ Untouched
       ELSE IF ~args.content.present /\ ~args.tags.present
            THEN ok(rpc_id, tool_text(<<"content or tags is required">>, TRUE)) /\ Untouched
       ELSE \E r \in {update_memory(World, codename, args.id.value, content, tags)} :
               /\ Commit(r.w)
               /\ IF ~r.ret.present THEN ok(rpc_id, tool_text(<<"memory not found">>, TRUE))
                  ELSE ok(rpc_id, tool_text(<<"updated id=", args.id.value>>, FALSE))

\* tools/call, name == "memory.delete"
mcp_memory_delete(codename, rpc_id, args) ==
    IF ~args.id.present THEN ok(rpc_id, tool_text(<<"id is required">>, TRUE)) /\ Untouched
    ELSE \E r \in {delete_memory(World, codename, args.id.value)} :
            /\ Commit(r.w)
            /\ IF ~r.ret THEN ok(rpc_id, tool_text(<<"memory not found">>, TRUE))
               ELSE ok(rpc_id, tool_text(<<"deleted id=", args.id.value>>, FALSE))

\* tools/call, name == "memory.all"
mcp_memory_all(codename, rpc_id) ==
    \E order \in ListOrders(World, codename) :
        \E r \in {list_memories(World, codename, order)} :
           /\ Commit(r.w)
           /\ ok(rpc_id, [content |-> <<[type |-> "text", text |-> r.ret]>>,
                          structuredContent |-> [results |-> r.ret],
                          isError |-> FALSE])

\* tools/call answering an unknown tool name with "method not found"
mcp_tools_call_method_not_found(codename, rpc_id, params) ==
    LET name == params.name
        args == params.arguments
    IN IF name = "memory.store" THEN mcp_memory_store(codename, rpc_id, args)
       ELSE IF name = "memory.search" THEN mcp_memory_search(codename, rpc_id, args)
       ELSE IF name = "memory.update" THEN mcp_memory_update(codename, rpc_id, args)
       ELSE IF name = "memory.delete" THEN mcp_memory_delete(codename, rpc_id, args)
       ELSE IF name = "memory.all" THEN mcp_memory_all(codename, rpc_id)
       ELSE err(rpc_id, -32601, <<"Method not found: ", name>>) /\ Untouched

\* method == "tools/call"
mcp_tools_call(codename, rpc_id, params) ==
    LET name == params.name
        args == params.arguments
    IN IF name = "memory.store" THEN mcp_memory_store(codename, rpc_id, args)
       ELSE IF name = "memory.search" THEN mcp_memory_search(codename, rpc_id, args)
       ELSE IF name = "memory.update" THEN mcp_memory_update(codename, rpc_id, args)
       ELSE IF name = "memory.delete" THEN mcp_memory_delete(codename, rpc_id, args)
       ELSE IF name = "memory.all" THEN mcp_memory_all(codename, rpc_id)
       ELSE err(rpc_id, -32602, <<"Unknown tool: ", name>>) /\ Untouched

\* json.dumps of a str: the characters between quotes, with " and \ escaped
RECURSIVE json_escape(_)
json_escape(s) ==
    IF s = <<>> THEN <<>>
    ELSE IF Head(s) \in {"\"", "\\"} THEN <<"\\", Head(s)>> \o json_escape(Tail(s))
    ELSE <<Head(s)>> \o json_escape(Tail(s))

json_dumps_str(s) == <<"\"">> \o json_escape(s) \o <<"\"">>

\* json.dumps of a record of _serialize_memory: the keys in insertion order,
\* the separators ", " and ": "; the id is a str
json_dumps_memory(m) ==
    <<"{", "\"", "i", "d", "\"", ":", " ">> \o json_dumps_str(<<ToString(m.id)>>)
    \o <<",", " ", "\"", "c", "o", "n", "t", "e", "n", "t", "\"", ":", " ">> \o json_dumps_str(m.content)
    \o <<",", " ", "\"", "t", "a", "g", "s", "\"", ":", " ">> \o <<"[">> \o join(<<",", " ">>, [i \in 1..Len(m.tags) |-> json_dumps_str(m.tags[i])]) \o <<"]", "}">>

\* json.dumps(memories, ensure_ascii=False)
json_dumps(memories) ==
    <<"[">> \o join(<<",", " ">>, [i \in 1..Len(memories) |-> json_dumps_memory(memories[i])]) \o <<"]">>

\* resources/read answering for the all-records URI of any project
mcp_resources_read_anyproject(codename, rpc_id, params) ==
    IF Len(params.uri) = 3 /\ params.uri[1] = AllUri(codename)[1] /\ params.uri[3] = AllUri(codename)[3]
    THEN \E order \in ListOrders(World, codename) :
             \E r \in {list_memories(World, codename, order)} :
                /\ Commit(r.w)
                /\ ok(rpc_id, [contents |-> <<[uri |-> params.uri, mimeType |-> "application/json", text |-> json_dumps(r.ret)]>>])
    ELSE err(rpc_id, -32002, <<"Resource not found: ", params.uri>>) /\ Untouched

\* method == "resources/read"
mcp_resources_read(codename, rpc_id, params) ==
    IF params.uri = AllUri(codename)
    THEN \E order \in ListOrders(World, codename) :
             \E r \in {list_memories(World, codename, order)} :
                /\ Commit(r.w)
                /\ ok(rpc_id, [contents |-> <<[uri |-> params.uri, mimeType |-> "application/json", text |-> json_dumps(r.ret)]>>])
    ELSE err(rpc_id, -32002, <<"Resource not found: ", params.uri>>) /\ Untouched

mcp(codename, msg) ==
    LET cn == _normalize_codename(codename)
        method == msg.method
        rpc_id == msg.id
        params == msg.params
    IN IF ~cn.ok
       THEN /\ result' = [kind |-> "err", code |-> -32602, message |-> <<"invalid codename">>]
            /\ response' = [status |-> 200, body |-> Some([jsonrpc |-> "2.0", id |-> None, error |-> [code |-> -32602, message |-> <<"invalid codename">>]])]
            /\ Untouched
       ELSE IF method = "initialize"
            THEN ok(rpc_id, [protocolVersion |-> IF params.protocolVersion.present THEN params.protocolVersion.value ELSE "2025-11-25",
                             capabilities |-> [tools |-> [listChanged |-> FALSE], resources |-> <<>>],
                             serverInfo |-> [name |-> "mcp-memory", version |-> "0.1.0"]]) /\ Untouched
       ELSE IF method = "initialized" THEN NoContent /\ Untouched
       ELSE IF method = "tools/list" THEN ok(rpc_id, [tools |-> TOOLS, nextCursor |-> None]) /\ Untouched
       ELSE IF method = "resources/list"
            THEN IF params.cursor.present /\ params.cursor.value # <<>>
                 THEN err(rpc_id, -32602, <<"Invalid cursor">>) /\ Untouched
                 ELSE ok(rpc_id, [resources |-> <<[uri |-> AllUri(cn.value), name |-> <<"project_memory (", cn.value, ")">>]>>,
                                  nextCursor |-> None]) /\ Untouched
       ELSE IF method = "resources/templates/list" THEN ok(rpc_id, [resourceTemplates |-> <<>>, nextCursor |-> None]) /\ Untouched
       ELSE IF method = "tools/call" THEN mcp_tools_call(cn.value, rpc_id, params)
       ELSE IF method = "resources/read" THEN mcp_resources_read(cn.value, rpc_id, params)
       ELSE err(rpc_id, -32601, <<"Method not found: ", method>>) /\ Untouched

-----------------------------------------------------------------------------
(* JSON-RPC request inputs *)

RpcIdInputs == {None, Some(1)}

ToolCall(name, args) == [name |-> name, arguments |-> args]

ToolCalls ==
    {ToolCall("memory.store", a) : a \in StoreArgs}
    \cup {ToolCall("memory.search", a) : a \in SearchArgs}
    \cup {ToolCall("memory.update", a) : a \in UpdateArgs}
    \cup {ToolCall("memory.delete", a) : a \in DeleteArgs}
    \cup {ToolCall("memory.all", None), ToolCall("memory.export", None)}

ReadParams == {[uri |-> AllUri(<<"a">>)], [uri |-> AllUri(<<"b">>)], [uri |-> <<"memory://other">>]}

Msg(method, rpc_id, params) == [method |-> method, id |-> rpc_id, params |-> params]

\* what a client sends to a codename that does not validate (mcp never reads it)
ProbeMessages ==
    {Msg("tools/list", rpc_id, None) : rpc_id \in RpcIdInputs}
    \cup {Msg("tools/call", rpc_id, ToolCall("memory.all", None)) : rpc_id \in RpcIdInputs}

\* the payloads of POST /api/projects: no codename, or a codename
ProjectPayloads == {[codename |-> None]} \cup {[codename |-> Some(codename)] : codename \in CodenameInputs \cup {<<>>}}

\* the codenames the test harness installs collections for
TestCodenames == {<<"a">>}

-----------------------------------------------------------------------------
(* The server: a request arrives, its handler runs, its response is read.  *)
(* Requests are served one at a time.                                      *)

Init ==
    /\ collections = <<>>
    /\ _collections = <<>>
    /\ _client = "None"
    /\ _TEST_MODE = FALSE
    /\ nextId = 0
    /\ pc = "idle"
    /\ request = NoRequest
    /\ result = NoResult
    /\ response = NoResponse
    /\ codecIn = <<>>
    /\ codecRaw = None
    /\ codecOut = <<>>
    /\ codecPc = "off"
    /\ threads = <<>>

Receive(req) ==
    /\ pc' = "received"
    /\ request' = req
    /\ UNCHANGED <<collections, _collections, _client, _TEST_MODE, nextId, result, response>>
    /\ UNCHANGED codecVars
    /\ UNCHANGED threads

RestRequest(handler, codename, memory_id, body) ==
    [handler |-> handler, codename |-> codename, memory_id |-> memory_id, body |-> body]

McpRequest(codename, msg) == [handler |-> "mcp", codename |-> codename, msg |-> msg]

\* a create that passes validation draws a uuid4; the model stops at MaxIds of them
Arrive ==
    /\ pc = "idle"
    /\ \/ \E codename \in CodenameInputs : Receive(RestRequest("api_list_memories", codename, 0, None))
       \/ \E codename \in CodenameInputs, p \in SearchParams : Receive(RestRequest("api_search_memories", codename, 0, p))
       \/ \E codename \in CodenameInputs, memory_id \in IdInputs : Receive(RestRequest("api_get_memory", codename, memory_id, None))
       \/ \E codename \in CodenameInputs, body \in StoreBodies :
              /\ nextId < MaxIds
              /\ Receive(RestRequest("api_create_memory", codename, 0, body))
       \/ \E codename \in CodenameInputs, memory_id \in IdInputs, body \in UpdateBodies :
              Receive(RestRequest("api_update_memory", codename, memory_id, body))
       \/ \E codename \in CodenameInputs, memory_id \in IdInputs : Receive(RestRequest("api_delete_memory", codename, memory_id, None))
       \/ \E enumeration_fails \in BOOLEAN :
              Receive(RestRequest("api_list_projects", <<>>, 0, [enumeration_fails |-> enumeration_fails]))
       \/ \E payload \in ProjectPayloads :
              Receive(RestRequest("api_create_project", IF payload.codename.present THEN payload.codename.value ELSE <<>>, 0, payload))
       \/ \E codename \in CodenameInputs, rpc_id \in RpcIdInputs, params \in ToolCalls :
              /\ _normalize_codename(codename).ok
              /\ params.name = "memory.store" => nextId < MaxIds
              /\ Receive(McpRequest(codename, Msg("tools/call", rpc_id, params)))
       \/ \E codename \in CodenameInputs, rpc_id \in RpcIdInputs, params \in ReadParams :
              /\ _normalize_codename(codename).ok
              /\ Receive(McpRequest(codename, Msg("resources/read", rpc_id, params)))
       \/ \E codename \in CodenameInputs, rpc_id \in RpcIdInputs, cursor \in {None, Some(<<"c">>)} :
              /\ _normalize_codename(codename).ok
              /\ Receive(McpRequest(codename, Msg("resources/list", rpc_id, [cursor |-> cursor])))
       \/ \E codename \in CodenameInputs, rpc_id \in RpcIdInputs, version \in {None, Some("2024-11-05")} :
              /\ _normalize_codename(codename).ok
              /\ Receive(McpRequest(codename, Msg("initialize", rpc_id, [protocolVersion |-> version])))
       \/ \E codename \in CodenameInputs, rpc_id \in RpcIdInputs, method \in {"initialized", "tools/list", "resources/templates/list", "ping"} :
              /\ _normalize_codename(codename).ok
              /\ Receive(McpRequest(codename, Msg(method, rpc_id, None)))
       \/ \E codename \in CodenameInputs, msg \in ProbeMessages :
              /\ ~_normalize_codename(codename).ok
              /\ Receive(McpRequest(codename, msg))

Serve(handler) ==
    /\ pc = "received"
    /\ request.handler = handler
    /\ pc' = "done"
    /\ UNCHANGED request
    /\ UNCHANGED codecVars
    /\ UNCHANGED threads

Serve_api_list_memories == Serve("api_list_memories") /\ api_list_memories(request.codename)

Serve_api_search_memories ==
    Serve("api_search_memories") /\ api_search_memories(request.codename, request.body.query, request.body.n_results)

Serve_api_get_memory == Serve("api_get_memory") /\ api_get_memory(request.codename, request.memory_id)

Serve_api_create_memory == Serve("api_create_memory") /\ api_create_memory(request.codename, request.body)

Serve_api_update_memory == Serve("api_update_memory") /\ api_update_memory(request.codename, request.memory_id, request.body)

Serve_api_delete_memory == Serve("api_delete_memory") /\ api_delete_memory(request.codename, request.memory_id)

\* request.body tells whether the store's enumeration fails while this request is served
Serve_api_list_projects == Serve("api_list_projects") /\ api_list_projects(request.body.enumeration_fails)

Serve_api_create_project == Serve("api_create_project") /\ api_create_project(request.body)

Serve_mcp == Serve("mcp") /\ mcp(request.codename, request.msg)

\* the test harness installs a collection for a codename, between requests
set_test_collection ==
    /\ pc = "idle"
    /\ \E codename \in TestCodenames :
           /\ _normalize_codename(codename).ok
           /\ _TEST_MODE' = TRUE
           /\ collections' = get_or_create_collection(collections, CollectionName(_normalize_codename(codename).value))
           /\ _collections' = [c \in DOMAIN _collections \cup {_normalize_codename(codename).value} |->
                                  IF c = _normalize_codename(codename).value THEN CollectionName(c) ELSE _collections[c]]
    /\ UNCHANGED <<_client, nextId, pc, request, result, response>>
    /\ UNCHANGED codecVars
    /\ UNCHANGED threads

\* the client reads the response
Deliver ==
    /\ pc = "done"
    /\ pc' = "idle"
    /\ request' = NoRequest
    /\ result' = NoResult
    /\ response' = NoResponse
    /\ Untouched
    /\ UNCHANGED codecVars
    /\ UNCHANGED threads

Next ==
    \/ Arrive
    \/ Serve_api_list_memories
    \/ Serve_api_search_memories
    \/ Serve_api_get_memory
    \/ Serve_api_create_memory
    \/ Serve_api_update_memory
    \/ Serve_api_delete_memory
    \/ Serve_api_list_projects
    \/ Serve_api_create_project
    \/ Serve_mcp
    \/ set_test_collection
    \/ Deliver

Spec == Init /\ [][Next]_vars

\* a create whose single tag holds a comma followed by a space
Arrive_CommaSpaceTag ==
    /\ pc = "idle"
    /\ nextId < MaxIds
    /\ \E codename \in CodenameInputs :
          Receive(RestRequest("api_create_memory", codename, 0, [content |-> Str_x, tags |-> CommaSpaceTag]))

NextTags == Next \/ Arrive_CommaSpaceTag

\* the requests of Spec and that create
SpecTags == Init /\ [][NextTags]_vars

-----------------------------------------------------------------------------
(* The tag codec round trip, on bounded inputs *)

CodecChars == {"a", ",", " "}

StringsUpTo(chars, n) == UNION {[1..k -> chars] : k \in 0..n}

CodecTags == StringsUpTo(CodecChars, MaxTagLen)

CodecTagLists == UNION {[1..k -> CodecTags] : k \in 0..MaxTags}

MemIdle ==
    /\ collections = <<>>
    /\ _collections = <<>>
    /\ _client = "None"
    /\ _TEST_MODE = FALSE
    /\ nextId = 0
    /\ pc = "off"
    /\ request = NoRequest
    /\ result = NoResult
    /\ response = NoResponse
    /\ threads = <<>>

CodecInit ==
    /\ MemIdle
    /\ codecIn \in CodecTagLists
    /\ codecRaw = None
    /\ codecOut = <<>>
    /\ codecPc = "in"

CodecEncode ==
    /\ codecPc = "in"
    /\ codecRaw' = Some(_tags_to_metadata(codecIn))
    /\ codecPc' = "encoded"
    /\ UNCHANGED <<codecIn, codecOut>>
    /\ UNCHANGED memVars

CodecDecode ==
    /\ codecPc \in {"in", "encoded"}
    /\ codecOut' = _metadata_to_tags(codecRaw)
    /\ codecPc' = "decoded"
    /\ UNCHANGED <<codecIn, codecRaw>>
    /\ UNCHANGED memVars

CodecNext == CodecEncode \/ CodecDecode

SpecCodec == CodecInit /\ [][CodecNext]_vars

-----------------------------------------------------------------------------
(* Concurrent calls.  The REST handlers are plain `def` functions, which   *)
(* the framework runs on worker threads, so calls of update_memory and     *)
(* delete_memory overlap; neither takes a lock.  A step is one statement   *)
(* that reaches the store.                                                 *)

MaxThreads == 4

Threads == 1..MaxThreads

RaceCodename == <<"a">>

\* the calls a thread can make: on the records with ids 1 and 2, or a
\* store_memory, which draws its own id
RaceCalls ==
    << [op |-> "update_memory", memory_id |-> 1, content |-> Some(<<"y">>), tags |-> None],
       [op |-> "update_memory", memory_id |-> 1, content |-> None, tags |-> Some(<< <<"b">> >>)],
       [op |-> "delete_memory", memory_id |-> 1, content |-> None, tags |-> None],
       [op |-> "update_memory", memory_id |-> 2, content |-> Some(<<"y">>), tags |-> None],
       [op |-> "update_memory", memory_id |-> 2, content |-> None, tags |-> Some(<< <<"b">> >>)],
       [op |-> "delete_memory", memory_id |-> 2, content |-> None, tags |-> None],
       [op |-> "store_memory", memory_id |-> 0, content |-> Some(<<"z">>), tags |-> Some(<< <<"c">> >>)] >>

\* which call each thread makes; threads are interchangeable, so they are
\* numbered by the call they make
RaceAssignments == {k \in [Threads -> 1..Len(RaceCalls)] : \A t, u \in Threads : t < u => k[t] <= k[u]}

\* a thread's frame: where it stands, its arguments, its local `existing`,
\* what it returned (deleted for delete_memory, updated for update_memory,
\* stored for store_memory), and whether the store skipped its update
\* because the id did not exist
IdleFrame(call) ==
    [pc |-> "idle", call |-> call, existing |-> None, updated |-> None, deleted |-> FALSE, stored |-> None, skipped |-> FALSE]

\* the store after two calls of store_memory(codename, "x", ["a"]) on an
\* empty store: the records with ids 1 and 2
RaceWorld ==
    store_memory(store_memory([colls |-> <<>>, cache |-> <<>>, client |-> "None", next |-> 0],
                              RaceCodename, <<"x">>, << <<"a">> >>).w,
                 RaceCodename, <<"x">>, << <<"a">> >>).w

RaceInit ==
    /\ collections = RaceWorld.colls
    /\ _collections = RaceWorld.cache
    /\ _client = RaceWorld.client
    /\ _TEST_MODE = FALSE
    /\ nextId = RaceWorld.next
    /\ pc = "off"
    /\ request = NoRequest
    /\ result = NoResult
    /\ response = NoResponse
    /\ codecIn = <<>>
    /\ codecRaw = None
    /\ codecOut = <<>>
    /\ codecPc = "off"
    /\ \E k \in RaceAssignments : threads = [t \in Threads |-> IdleFrame(RaceCalls[k[t]])]

RaceFrame == UNCHANGED <<pc, request, result, response>> /\ UNCHANGED codecVars

\* a thread enters update_memory, delete_memory or store_memory
RaceCall(t) ==
    /\ threads[t].pc = "idle"
    /\ threads' = [threads EXCEPT ![t] = [@ EXCEPT !.pc = IF threads[t].call.op = "store_memory" THEN "add" ELSE "existing"]]
    /\ UNCHANGED <<collections, _collections, _client, _TEST_MODE, nextId>>
    /\ RaceFrame

\* existing = _get_memory_by_id(codename, memory_id); if not existing: return None
update_memory_step_existing(t) ==
    /\ threads[t].pc = "existing"
    /\ threads[t].call.op = "update_memory"
    /\ \E e \in {_get_memory_by_id(World, RaceCodename, threads[t].call.memory_id)} :
          /\ Commit(e.w)
          /\ threads' = [threads EXCEPT ![t] = [@ EXCEPT !.existing = e.ret, !.pc = IF e.ret.present THEN "update" ELSE "done"]]
    /\ RaceFrame

\* new_content, new_tags from the arguments and `existing`; get_collection(codename).update(...)
update_memory_step_update(t) ==
    /\ threads[t].pc = "update"
    /\ Commit(update_memory_update(get_collection(World, RaceCodename), threads[t].call.memory_id,
                                   IF threads[t].call.content.present THEN threads[t].call.content.value
                                   ELSE threads[t].existing.value.content,
                                   IF threads[t].call.tags.present THEN _normalize_tags(threads[t].call.tags)
                                   ELSE threads[t].existing.value.tags))
    /\ threads' = [threads EXCEPT ![t] = [@ EXCEPT !.pc = "return", !.skipped = threads[t].call.memory_id \notin DOMAIN collections[CollectionName(RaceCodename)]]]
    /\ RaceFrame

\* return _get_memory_by_id(codename, memory_id)
update_memory_step_return(t) ==
    /\ threads[t].pc = "return"
    /\ \E r \in {_get_memory_by_id(World, RaceCodename, threads[t].call.memory_id)} :
          /\ Commit(r.w)
          /\ threads' = [threads EXCEPT ![t] = [@ EXCEPT !.updated = r.ret, !.pc = "done"]]
    /\ RaceFrame

\* existing = _get_memory_by_id(codename, memory_id); if not existing: return False
delete_memory_step_existing(t) ==
    /\ threads[t].pc = "existing"
    /\ threads[t].call.op = "delete_memory"
    /\ \E e \in {_get_memory_by_id(World, RaceCodename, threads[t].call.memory_id)} :
          /\ Commit(e.w)
          /\ threads' = [threads EXCEPT ![t] = [@ EXCEPT !.existing = e.ret, !.pc = IF e.ret.present THEN "delete" ELSE "done"]]
    /\ RaceFrame

\* get_collection(codename).delete(ids=[memory_id]); return True
delete_memory_step_delete(t) ==
    /\ threads[t].pc = "delete"
    /\ \E d \in {delete_memory_delete(get_collection(World, RaceCodename), threads[t].call.memory_id)} :
          /\ Commit(d.w)
          /\ threads' = [threads EXCEPT ![t] = [@ EXCEPT !.deleted = d.ret, !.pc = "done"]]
    /\ RaceFrame

\* memory_id = str(uuid.uuid4()); get_collection(codename).add(...); return _get_memory_by_id(codename, memory_id)
store_memory_step(t) ==
    /\ threads[t].pc = "add"
    /\ \E r \in {store_memory(World, RaceCodename, threads[t].call.content.value, threads[t].call.tags.value)} :
          /\ Commit(r.w)
          /\ threads' = [threads EXCEPT ![t] = [@ EXCEPT !.stored = r.ret, !.pc = "done"]]
    /\ RaceFrame

RaceNext ==
    \/ \E t \in Threads : RaceCall(t)
    \/ \E t \in Threads : update_memory_step_existing(t)
    \/ \E t \in Threads : update_memory_step_update(t)
    \/ \E t \in Threads : update_memory_step_return(t)
    \/ \E t \in Threads : delete_memory_step_existing(t)
    \/ \E t \in Threads : delete_memory_step_delete(t)
    \/ \E t \in Threads : store_memory_step(t)

SpecRace == RaceInit /\ [][RaceNext]_vars

-----------------------------------------------------------------------------
(* Concurrent first access.  get_collection, _build_collection and         *)
(* _get_client take no lock: a step is one statement that reads or writes  *)
(* _collections, _client or the store.  Two clients can exist here, so a   *)
(* collection handle names its client as well as the collection: the       *)
(* PersistentClient is the store under data/, the Client one in memory.    *)

FirstCodename == <<"a">>

\* the calls a thread can make: a create of a record in the project, which
\* begins with get_collection, and the listing of the projects
FirstCalls == <<"store_memory", "list_project_codenames">>

FirstAssignments == {k \in [Threads -> 1..Len(FirstCalls)] : \A t, u \in Threads : t < u => k[t] <= k[u]}

Handle(client, codename) == [client |-> client, name |-> CollectionName(codename)]

\* the collection the test harness installed, under a codename of its own
TestHandle == [client |-> "Client", name |-> <<"test">>]

\* a thread's frame: where it stands, its call, and its locals client,
\* the collection it built or got, and the id it drew
FirstFrame(call) == [pc |-> "idle", call |-> call, client |-> "None", built |-> [client |-> "None", name |-> <<>>], got |-> [client |-> "None", name |-> <<>>], memory_id |-> 0]

\* no request has been served; the harness may have called set_test_collection
FirstInit ==
    /\ _TEST_MODE \in BOOLEAN
    /\ _collections = IF _TEST_MODE THEN (<<"t">> :> TestHandle) ELSE <<>>
    /\ collections = IF _TEST_MODE THEN (TestHandle :> EmptyFcn) ELSE <<>>
    /\ _client = "None"
    /\ nextId = 0
    /\ pc = "off"
    /\ request = NoRequest
    /\ result = NoResult
    /\ response = NoResponse
    /\ codecIn = <<>>
    /\ codecRaw = None
    /\ codecOut = <<>>
    /\ codecPc = "off"
    /\ \E k \in FirstAssignments : threads = [t \in Threads |-> FirstFrame(FirstCalls[k[t]])]

FirstUnchanged == UNCHANGED <<_TEST_MODE, pc, request, result, response>> /\ UNCHANGED codecVars

\* the persistent argument of the thread's _get_client: True from
\* get_collection, not _TEST_MODE from list_project_codenames
Persistent(t) == IF threads[t].call = "store_memory" THEN TRUE ELSE ~_TEST_MODE

\* a thread enters store_memory (get_collection first) or list_project_codenames
FirstCall(t) ==
    /\ threads[t].pc = "idle"
    /\ threads' = [threads EXCEPT ![t].pc = IF threads[t].call = "store_memory" THEN "lookup" ELSE "_get_client"]
    /\ UNCHANGED <<collections, _collections, _client, nextId>>
    /\ FirstUnchanged

\* if codename not in _collections:
get_collection_step_lookup(t) ==
    /\ threads[t].pc = "lookup"
    /\ threads' = [threads EXCEPT ![t].pc = IF FirstCodename \in DOMAIN _collections THEN "return" ELSE "_get_client"]
    /\ UNCHANGED <<collections, _collections, _client, nextId>>
    /\ FirstUnchanged

\* if _client is None:
_get_client_step_check(t) ==
    /\ threads[t].pc = "_get_client"
    /\ threads' = [threads EXCEPT ![t].pc = IF _client = "None" THEN "construct" ELSE "client"]
    /\ UNCHANGED <<collections, _collections, _client, nextId>>
    /\ FirstUnchanged

\* _client = chromadb.PersistentClient(...) or chromadb.Client(...)
_get_client_step_construct(t) ==
    /\ threads[t].pc = "construct"
    /\ _client' = IF Persistent(t) THEN "PersistentClient" ELSE "Client"
    /\ threads' = [threads EXCEPT ![t].pc = "client"]
    /\ UNCHANGED <<collections, _collections, nextId>>
    /\ FirstUnchanged

\* return _client, into the caller's local client
_get_client_step_return(t) ==
    /\ threads[t].pc = "client"
    /\ threads' = [threads EXCEPT ![t].client = _client,
                                  ![t].pc = IF threads[t].call = "store_memory" THEN "create" ELSE "list"]
    /\ UNCHANGED <<collections, _collections, _client, nextId>>
    /\ FirstUnchanged

\* client.get_or_create_collection(name=f"project_memory_{codename}", ...)
_build_collection_step_create(t) ==
    /\ threads[t].pc = "create"
    /\ collections' = get_or_create_collection(collections, Handle(threads[t].client, FirstCodename))
    /\ threads' = [threads EXCEPT ![t].built = Handle(threads[t].client, FirstCodename), ![t].pc = "cache"]
    /\ UNCHANGED <<_collections, _client, nextId>>
    /\ FirstUnchanged

\* _collections[codename] = (the collection built)
get_collection_step_cache(t) ==
    /\ threads[t].pc = "cache"
    /\ _collections' = [c \in DOMAIN _collections \cup {FirstCodename} |->
                            IF c = FirstCodename THEN threads[t].built ELSE _collections[c]]
    /\ threads' = [threads EXCEPT ![t].pc = "return"]
    /\ UNCHANGED <<collections, _client, nextId>>
    /\ FirstUnchanged

\* return _collections[codename]
get_collection_step_return(t) ==
    /\ threads[t].pc = "return"
    /\ threads' = [threads EXCEPT ![t].got = _collections[FirstCodename], ![t].pc = "add"]
    /\ UNCHANGED <<collections, _collections, _client, nextId>>
    /\ FirstUnchanged

\* memory_id = str(uuid.uuid4()); (the collection got).add(documents=[content], ...)
store_memory_step_add(t) ==
    /\ threads[t].pc = "add"
    /\ nextId' = nextId + 1
    /\ collections' = collection_add(collections, threads[t].got, nextId + 1, <<"x">>, _tags_to_metadata(<<>>))
    /\ threads' = [threads EXCEPT ![t].memory_id = nextId + 1, ![t].pc = "done"]
    /\ UNCHANGED <<_collections, _client>>
    /\ FirstUnchanged

\* collections = client.list_collections()
list_project_codenames_step_list(t) ==
    /\ threads[t].pc = "list"
    /\ threads' = [threads EXCEPT ![t].pc = "done"]
    /\ UNCHANGED <<collections, _collections, _client, nextId>>
    /\ FirstUnchanged

FirstNext ==
    \/ \E t \in Threads : FirstCall(t)
    \/ \E t \in Threads : get_collection_step_lookup(t)
    \/ \E t \in Threads : _get_client_step_check(t)
    \/ \E t \in Threads : _get_client_step_construct(t)
    \/ \E t \in Threads : _get_client_step_return(t)
    \/ \E t \in Threads : _build_collection_step_create(t)
    \/ \E t \in Threads : get_collection_step_cache(t)
    \/ \E t \in Threads : get_collection_step_return(t)
    \/ \E t \in Threads : store_memory_step_add(t)
    \/ \E t \in Threads : list_project_codenames_step_list(t)

SpecFirst == FirstInit /\ [][FirstNext]_vars

-----------------------------------------------------------------------------
(* Vocabulary of the properties *)

\* a handler runs: the step from a received request to its response
Served == pc = "received" /\ pc' = "done"

\* the project a raw codename addresses: its trimmed, lowercased form
ProjectOf(raw) == lower(strip(raw))

\* the request is addressed to a project: the trimmed, lowercased codename
\* is a non-empty word over [a-z0-9_-]
ToProject ==
    /\ request.handler # ""
    /\ ProjectOf(request.codename) # <<>>
    /\ \A i \in 1..Len(ProjectOf(request.codename)) : ProjectOf(request.codename)[i] \in CodenameChars

IsRest(handler) == request.handler = handler

IsTool(name) == request.handler = "mcp" /\ request.msg.method = "tools/call" /\ request.msg.params.name = name

ToolArgs == request.msg.params.arguments

\* the rows of a project in a store; none when its collection does not exist
Rows(colls, project) == IF CollectionName(project) \in DOMAIN colls THEN colls[CollectionName(project)] ELSE EmptyFcn

\* the records list_all shows for a project, as a set
Records(colls, project) ==
    {[id |-> i, content |-> Rows(colls, project)[i].document, tags |-> _metadata_to_tags(Some(Rows(colls, project)[i].metadata))] :
        i \in DOMAIN Rows(colls, project)}

\* the outcome is a REST error of this status
RestError(status) == result.kind = "HTTPException" /\ result.status_code = status /\ response.status = status

\* the outcome is a tool result with isError true carrying this text; it is
\* the body's result when the request carries a correlation id
ToolError(text) ==
    /\ result.kind = "ok"
    /\ result.value.isError
    /\ result.value.content[1].text = <<text>>
    /\ request.msg.id.present => (response.status = 200 /\ response.body.value.result = result.value)

\* the outcome is a tool result with isError false
ToolSuccess == result.kind = "ok" /\ ~result.value.isError

IsCreate == IsRest("api_create_memory") \/ IsTool("memory.store")

CreateContent ==
    IF IsRest("api_create_memory") THEN request.body.content
    ELSE IF ToolArgs.content.present THEN ToolArgs.content.value ELSE <<>>

CreateTags == IF IsRest("api_create_memory") THEN Some(request.body.tags) ELSE ToolArgs.tags

\* the id a successful create reports
CreatedId == IF IsRest("api_create_memory") THEN result.value.id ELSE result.value.content[1].text[2]

IsUpdate == IsRest("api_update_memory") \/ IsTool("memory.update")

UpdateContent == IF IsRest("api_update_memory") THEN request.body.content ELSE ToolArgs.content

UpdateTags == IF IsRest("api_update_memory") THEN request.body.tags ELSE ToolArgs.tags

\* the id an update, delete or get names; None for an absent or blank id
TargetId == IF request.handler = "mcp" THEN ToolArgs.id ELSE Some(request.memory_id)

IsDelete == IsRest("api_delete_memory") \/ IsTool("memory.delete")

IsGet == IsRest("api_get_memory")

IsSearch == IsRest("api_search_memories") \/ IsTool("memory.search")

IsList == IsRest("api_list_memories") \/ IsTool("memory.all")

\* the project the request addresses
Project == ProjectOf(request.codename)

\* the request names an id (update, delete, get)
NamesId == (IsUpdate \/ IsDelete \/ IsGet) /\ TargetId.present

\* the outcome is not-found
NotFound ==
    IF request.handler = "mcp" THEN ToolError("memory not found")
    ELSE RestError(404) /\ result.detail = "memory not found"

\* the update supplies a field to change
SuppliesField == UpdateContent.present \/ UpdateTags.present

\* the sequence's elements
Range(seq) == {seq[i] : i \in 1..Len(seq)}

\* Reading a JSON text back.  s begins after an opening quote: the string's
\* characters up to the closing quote, a backslash taking the next character
RECURSIVE ReadString(_, _)
ReadString(s, acc) ==
    IF Head(s) = "\"" THEN [value |-> acc, rest |-> Tail(s)]
    ELSE IF Head(s) = "\\" THEN ReadString(Tail(Tail(s)), Append(acc, s[2]))
    ELSE ReadString(Tail(s), Append(acc, Head(s)))

\* s begins after "[": the strings up to the closing "]"
RECURSIVE ReadStrings(_, _)
ReadStrings(s, acc) ==
    IF Head(s) = "]" THEN [value |-> acc, rest |-> Tail(s)]
    ELSE IF Head(s) = "\"" THEN CHOOSE read \in {ReadStrings(str.rest, Append(acc, str.value)) : str \in {ReadString(Tail(s), <<>>)}} : TRUE
    ELSE ReadStrings(Tail(s), acc)

Drop(s, n) == SubSeq(s, n + 1, Len(s))

\* the id a string of digits stands for
ReadId(str) == CHOOSE i \in 0..(MaxIds + MaxThreads) : <<ToString(i)>> = str

\* s begins at "{": the object with the keys id, content and tags, and what
\* follows it; each value is read once, from where the one before it ended
ReadMemory_tags(id, content) ==
    CHOOSE m \in {[value |-> [id |-> ReadId(id.value), content |-> content.value, tags |-> tags.value], rest |-> Tail(tags.rest)] :
                  tags \in {ReadStrings(Drop(content.rest, 11), <<>>)}} : TRUE

ReadMemory_content(id) ==
    CHOOSE m \in {ReadMemory_tags(id, content) : content \in {ReadString(Drop(id.rest, 14), <<>>)}} : TRUE

ReadMemory(s) ==
    CHOOSE m \in {ReadMemory_content(id) : id \in {ReadString(Drop(s, 8), <<>>)}} : TRUE

\* s begins after "[": the objects up to the closing "]"
RECURSIVE ReadMemories(_, _)
ReadMemories(s, acc) ==
    IF Head(s) = "]" THEN acc
    ELSE IF Head(s) = "{" THEN CHOOSE read \in {ReadMemories(m.rest, Append(acc, m.value)) : m \in {ReadMemory(s)}} : TRUE
    ELSE ReadMemories(Tail(s), acc)

\* json.loads of a text json.dumps wrote for a list of records
json_loads(text) == ReadMemories(Tail(text), <<>>)

\* the records the outcome returns to the caller
ReturnedList ==
    IF IsRest("api_list_memories") /\ result.kind = "return" THEN result.value
    ELSE IF IsRest("api_search_memories") /\ result.kind = "return" THEN result.value.results
    ELSE IF (IsTool("memory.all") \/ IsTool("memory.search")) /\ ToolSuccess THEN result.value.structuredContent.results
    ELSE IF request.handler = "mcp" /\ request.msg.method = "resources/read" /\ result.kind = "ok" THEN json_loads(result.value.contents[1].text)
    ELSE IF (IsRest("api_get_memory") \/ IsRest("api_create_memory") \/ IsRest("api_update_memory")) /\ result.kind = "return"
         THEN <<result.value>>
    ELSE <<>>

\* the tags the server documents for a tag list: each trimmed, blank ones dropped, in order
RECURSIVE ExpectedTags(_)
ExpectedTags(T) ==
    IF T = <<>> THEN <<>>
    ELSE IF strip(Head(T)) = <<>> THEN ExpectedTags(Tail(T))
    ELSE <<strip(Head(T))>> \o ExpectedTags(Tail(T))

-----------------------------------------------------------------------------
(* Properties *)

\* C1: a create with non-blank content C and tag list T, then a get of the
\* returned id, yields content C trimmed and tags T with each tag trimmed and
\* blank tags dropped, in order.
C1_CreateThenGet ==
    (pc = "done" /\ IsCreate /\ ToProject /\ strip(CreateContent) # <<>>) =>
        /\ _get_memory_by_id(World, ProjectOf(request.codename), CreatedId).ret.present
        /\ _get_memory_by_id(World, ProjectOf(request.codename), CreatedId).ret.value.content = strip(CreateContent)
        /\ _get_memory_by_id(World, ProjectOf(request.codename), CreatedId).ret.value.tags
               = ExpectedTags(IF CreateTags.present THEN CreateTags.value ELSE <<>>)

\* C3: a create whose content is empty or only whitespace, addressed to a
\* project through either adapter, fails with a validation error (REST 400,
\* JSON-RPC tool result with isError true) and the records of the project are
\* the same before and after; nothing else of the store changes either.
C3_BlankCreateRejected ==
    [][(Served /\ IsCreate /\ ToProject /\ strip(CreateContent) = <<>>) =>
          /\ IF IsRest("api_create_memory") THEN RestError(400)' ELSE ToolError("content is required")'
          /\ Records(collections', ProjectOf(request.codename)) = Records(collections, ProjectOf(request.codename))
          /\ collections' = collections
          /\ nextId' = nextId]_vars

C3_Witness ==
    /\ pc = "done"
    /\ IsTool("memory.store")
    /\ ToolArgs.content.present
    /\ ToolArgs.content.value = <<" ">>
    /\ ToolError("content is required")
    /\ Records(collections, ProjectOf(request.codename)) # {}

\* C4: an update that supplies neither content nor tags, addressed to a
\* project through either adapter, fails with a validation error (REST 400,
\* JSON-RPC tool result with isError true) whether or not the id exists, and
\* every stored record is unchanged.
C4_EmptyUpdateRejected ==
    [][(Served /\ IsUpdate /\ ToProject /\ ~UpdateContent.present /\ ~UpdateTags.present) =>
          /\ IF IsRest("api_update_memory") THEN RestError(400)'
             ELSE IF TargetId.present THEN ToolError("content or tags is required")' ELSE ToolError("id is required")'
          /\ collections' = collections]_vars

C4_Witness ==
    /\ pc = "done"
    /\ IsRest("api_update_memory")
    /\ ToProject
    /\ ~UpdateContent.present /\ ~UpdateTags.present
    /\ request.memory_id \in DOMAIN Rows(collections, ProjectOf(request.codename))
    /\ RestError(400)

C4_WitnessUnknownId ==
    /\ pc = "done"
    /\ IsTool("memory.update")
    /\ ~UpdateContent.present /\ ~UpdateTags.present
    /\ TargetId.present
    /\ TargetId.value \notin DOMAIN Rows(collections, ProjectOf(request.codename))
    /\ Records(collections, ProjectOf(request.codename)) # {}
    /\ ToolError("content or tags is required")

\* C5: an update that supplies content or tags, of an id that is not in the
\* project's collection, returns not-found (REST 404, JSON-RPC isError true
\* 'memory not found') and mutates nothing: no record is created under that
\* id and every existing record is unchanged.
C5_UpdateUnknownId ==
    [][(Served /\ IsUpdate /\ ToProject /\ TargetId.present /\ SuppliesField
            /\ TargetId.value \notin DOMAIN Rows(collections, Project)) =>
          /\ NotFound'
          /\ TargetId.value \notin DOMAIN Rows(collections', Project)
          /\ \A name \in DOMAIN collections : collections'[name] = collections[name]
          /\ Records(collections', Project) = Records(collections, Project)]_vars

C5_Witness ==
    /\ pc = "done"
    /\ IsRest("api_update_memory")
    /\ ToProject
    /\ UpdateContent.present
    /\ request.memory_id \notin DOMAIN Rows(collections, Project)
    /\ Records(collections, Project) # {}
    /\ NotFound

\* C5 as the claim words it: every update of an id that is not in the
\* project's collection returns not-found, whatever it supplies.
C5_AnyUpdateUnknownId ==
    [][(Served /\ IsUpdate /\ ToProject /\ TargetId.present
            /\ TargetId.value \notin DOMAIN Rows(collections, Project)) =>
          /\ NotFound'
          /\ \A name \in DOMAIN collections : collections'[name] = collections[name]]_vars

\* C6: on one project, served one request at a time: a delete of an existing
\* id succeeds and removes the record; an id that is gone never comes back;
\* every later delete or get of it, and every later update of it that
\* supplies content or tags, returns not-found; and a delete of an id that is
\* gone changes no state.
C6_DeleteTwice ==
    [][/\ (Served /\ IsDelete /\ ToProject /\ TargetId.present /\ TargetId.value \in DOMAIN Rows(collections, Project)) =>
            /\ IF IsRest("api_delete_memory") THEN (result.kind = "return" /\ result.value.deleted /\ response.status = 200)'
               ELSE (ToolSuccess /\ result.value.content[1].text = <<"deleted id=", TargetId.value>>)'
            /\ TargetId.value \notin DOMAIN Rows(collections', Project)
            /\ \A i \in DOMAIN Rows(collections, Project) \ {TargetId.value} :
                   i \in DOMAIN Rows(collections', Project) /\ Rows(collections', Project)[i] = Rows(collections, Project)[i]
       /\ \A name \in DOMAIN collections' : \A i \in DOMAIN collections'[name] :
              i <= nextId => (name \in DOMAIN collections /\ i \in DOMAIN collections[name])
       /\ (Served /\ NamesId /\ ToProject /\ (IsUpdate => SuppliesField)
               /\ TargetId.value \notin DOMAIN Rows(collections, Project)) => NotFound'
       /\ (Served /\ IsDelete /\ ToProject /\ TargetId.present /\ Project \in DOMAIN _collections
               /\ TargetId.value \notin DOMAIN Rows(collections, Project)) =>
              UNCHANGED <<collections, _collections, _client, nextId>>]_vars

\* a delete of an id that was created and is gone from a project that has been used
C6_Witness ==
    /\ pc = "done"
    /\ IsDelete
    /\ ToProject
    /\ TargetId.present
    /\ TargetId.value <= nextId
    /\ \A name \in DOMAIN collections : TargetId.value \notin DOMAIN collections[name]
    /\ Records(collections, Project) # {}
    /\ NotFound

\* C6 as the claim words it: every delete, get or update of an id that is gone
\* returns not-found, whatever the update supplies.
C6_AnyLaterRequest ==
    [][(Served /\ NamesId /\ ToProject /\ TargetId.value <= nextId
            /\ \A name \in DOMAIN collections : TargetId.value \notin DOMAIN collections[name]) => NotFound']_vars

\* C7: a search with a non-blank query and a limit n >= 0 supplied by the
\* caller, through either adapter, returns at most n records, all of the
\* addressed project; a search with a blank query fails with a validation
\* error and touches nothing of the store.
C7_SearchAtMostN ==
    [][(Served /\ IsSearch /\ ToProject) =>
          IF IsRest("api_search_memories")
          THEN IF strip(request.body.query) = <<>> THEN RestError(400)' /\ UNCHANGED <<collections, _collections>>
               ELSE /\ Len(ReturnedList') <= request.body.n_results
                    /\ Range(ReturnedList') \subseteq Records(collections', Project)
          ELSE IF ~ToolArgs.query.present \/ strip(ToolArgs.query.value) = <<>>
               THEN ToolError("query is required")' /\ UNCHANGED <<collections, _collections>>
               ELSE ToolArgs.n_results.present =>
                        /\ Len(ReturnedList') <= ToolArgs.n_results.value
                        /\ Range(ReturnedList') \subseteq Records(collections', Project)]_vars

\* C8: a successful update applies only the supplied fields: without content
\* the content stays, without tags the tags stay, supplied content is stored
\* trimmed, supplied tags (trimmed, blank ones dropped) are stored in place of
\* the old list, the record stays under its id in its project, and no other
\* record of any project changes.
C8_UpdateFrame ==
    [][(Served /\ IsUpdate /\ ToProject /\ TargetId.present /\ SuppliesField
            /\ TargetId.value \in DOMAIN Rows(collections, Project)) =>
          /\ IF IsRest("api_update_memory") THEN (result.kind = "return" /\ result.value.id = TargetId.value)'
             ELSE (ToolSuccess /\ result.value.content[1].text = <<"updated id=", TargetId.value>>)'
          /\ TargetId.value \in DOMAIN Rows(collections', Project)
          /\ Rows(collections', Project)[TargetId.value].document =
                 IF UpdateContent.present THEN strip(UpdateContent.value)
                 ELSE Rows(collections, Project)[TargetId.value].document
          /\ IF UpdateTags.present
             THEN Rows(collections', Project)[TargetId.value].metadata = _tags_to_metadata(ExpectedTags(UpdateTags.value))
             ELSE _metadata_to_tags(Some(Rows(collections', Project)[TargetId.value].metadata))
                      = _metadata_to_tags(Some(Rows(collections, Project)[TargetId.value].metadata))
          /\ DOMAIN collections' = DOMAIN collections
          /\ \A name \in DOMAIN collections :
                 /\ DOMAIN collections'[name] = DOMAIN collections[name]
                 /\ \A i \in DOMAIN collections[name] : i # TargetId.value => collections'[name][i] = collections[name][i]]_vars

\* a tags-only update that replaced a list of two tags by the empty list
C8_Witness ==
    /\ pc = "done"
    /\ IsUpdate
    /\ ToProject
    /\ TargetId.present
    /\ ~UpdateContent.present
    /\ UpdateTags.present
    /\ UpdateTags.value = <<>>
    /\ TargetId.value \in DOMAIN Rows(collections, Project)
    /\ Rows(collections, Project)[TargetId.value].metadata.tags = <<>>
    /\ Rows(collections, Project)[TargetId.value].document = <<"x">>
    /\ Cardinality(DOMAIN Rows(collections, Project)) = 2

\* C9: after any series of creates, updates and deletes served one at a time,
\* list_all returns exactly the records created and not deleted, each once,
\* with the content and tags most recently written to it.  Stated step by
\* step: a create adds the record it wrote, an update replaces the record by
\* what it wrote, a delete removes the record, nothing else changes the
\* records, and a list returns every record of the project once.
C9_ListAll ==
    [][(Served /\ ToProject) =>
          /\ Records(collections', Project) =
                 IF IsCreate /\ strip(CreateContent) # <<>>
                 THEN Records(collections, Project) \cup
                          {[id |-> nextId + 1, content |-> strip(CreateContent),
                            tags |-> ExpectedTags(IF CreateTags.present THEN CreateTags.value ELSE <<>>)]}
                 ELSE IF IsUpdate /\ TargetId.present /\ SuppliesField /\ TargetId.value \in DOMAIN Rows(collections, Project)
                 THEN {r \in Records(collections, Project) : r.id # TargetId.value} \cup
                          {[id |-> TargetId.value,
                            content |-> IF UpdateContent.present THEN strip(UpdateContent.value)
                                        ELSE Rows(collections, Project)[TargetId.value].document,
                            tags |-> IF UpdateTags.present THEN ExpectedTags(UpdateTags.value)
                                     ELSE _metadata_to_tags(Some(Rows(collections, Project)[TargetId.value].metadata))]}
                 ELSE IF IsDelete /\ TargetId.present
                 THEN {r \in Records(collections, Project) : r.id # TargetId.value}
                 ELSE Records(collections, Project)
          /\ IsList =>
                 /\ Range(ReturnedList') = Records(collections', Project)
                 /\ Len(ReturnedList') = Cardinality(DOMAIN Rows(collections', Project))]_vars

\* C10: a request addressed to a codename leaves every other project's
\* collection as it was, creates no collection but its own, and returns only
\* records of its own project; the project is the codename trimmed and
\* lowercased, so " A" and "a" reach the same collection, and a record
\* created through one is in the collection of the other.
C10_Isolation ==
    [][(Served /\ ToProject) =>
          /\ \A name \in DOMAIN collections :
                 name # CollectionName(Project) => (name \in DOMAIN collections' /\ collections'[name] = collections[name])
          /\ DOMAIN collections' \subseteq DOMAIN collections \cup {COLLECTION_PREFIX \o Project}
          /\ Range(ReturnedList') \subseteq Records(collections', Project)
          /\ \A r \in Range(ReturnedList') : \A name \in DOMAIN collections' :
                 r.id \in DOMAIN collections'[name] => name = COLLECTION_PREFIX \o Project
          /\ (IsCreate /\ strip(CreateContent) # <<>>) => CreatedId' \in DOMAIN Rows(collections', Project)]_vars

\* a get through " A" returns a record while project b holds another
C10_Witness ==
    /\ pc = "done"
    /\ IsGet
    /\ request.codename = <<" ", "A">>
    /\ result.kind = "return"
    /\ result.value.id \in DOMAIN Rows(collections, <<"a">>)
    /\ Rows(collections, <<"b">>) # EmptyFcn

\* C11: a JSON-RPC request that carries no correlation id is answered with an
\* empty acknowledgment, status 204 and no body, on every branch: invalid
\* codename, unknown method, unknown tool, invalid cursor, unknown resource,
\* tool validation failure and every success.
C11_NotificationNoBody ==
    (pc = "done" /\ request.handler = "mcp" /\ ~request.msg.id.present) =>
        (response.status = 204 /\ ~response.body.present)

\* the tools/call request fails argument validation
ToolValidationFailure ==
    \/ IsTool("memory.store") /\ strip(CreateContent) = <<>>
    \/ IsTool("memory.search") /\ (~ToolArgs.query.present \/ strip(ToolArgs.query.value) = <<>>)
    \/ (IsTool("memory.update") \/ IsTool("memory.delete")) /\ ~ToolArgs.id.present
    \/ IsTool("memory.update") /\ ~SuppliesField

\* the tools/call request names an id that is not in the project's collection
ToolUnknownId ==
    /\ IsTool("memory.update") \/ IsTool("memory.delete")
    /\ ToolArgs.id.present
    /\ IsTool("memory.update") => SuppliesField
    /\ ToolArgs.id.value \notin DOMAIN Rows(collections, Project)

\* the response is a JSON-RPC result envelope whose result has isError true
IsErrorEnvelope ==
    /\ response.status = 200
    /\ response.body.present
    /\ "result" \in DOMAIN response.body.value
    /\ "error" \notin DOMAIN response.body.value
    /\ response.body.value.id = request.msg.id
    /\ response.body.value.result.isError

\* C12: a tools/call of a known tool with a correlation id that fails
\* argument validation, or that names an unknown id, is answered with a
\* JSON-RPC result envelope with isError true, never with an error object,
\* and the store is unchanged.
C12_ToolErrorsAreResults ==
    [][(Served /\ ToProject /\ request.handler = "mcp" /\ request.msg.id.present
            /\ (ToolValidationFailure \/ ToolUnknownId)) =>
          /\ IsErrorEnvelope'
          /\ collections' = collections]_vars

\* the methods the JSON-RPC adapter knows
KnownMethods == {"initialize", "initialized", "tools/list", "resources/list", "resources/templates/list", "resources/read", "tools/call"}

\* the tool names the JSON-RPC adapter knows
KnownTools == {"memory.store", "memory.search", "memory.update", "memory.delete", "memory.all"}

\* the response is a JSON-RPC error object with this code, for the request's id
IsErrorObject(code) ==
    /\ response.status = 200
    /\ response.body.present
    /\ "error" \in DOMAIN response.body.value
    /\ "result" \notin DOMAIN response.body.value
    /\ response.body.value.id = request.msg.id
    /\ response.body.value.error.code = code

\* C13: for a request with a valid codename and a correlation id, a method
\* outside the known ones yields error -32601 and a tools/call of a name
\* outside the five tools yields error -32602; in both cases the collection
\* cache and every stored record are unchanged.
C13_UnknownMethodAndTool ==
    [][(Served /\ ToProject /\ request.handler = "mcp" /\ request.msg.id.present) =>
          /\ request.msg.method \notin KnownMethods =>
                 (IsErrorObject(-32601)' /\ UNCHANGED <<collections, _collections>>)
          /\ (request.msg.method = "tools/call" /\ request.msg.params.name \notin KnownTools) =>
                 (IsErrorObject(-32602)' /\ UNCHANGED <<collections, _collections>>)]_vars

\* an unknown tool was called on a project that holds a record
C13_Witness ==
    /\ pc = "done"
    /\ request.handler = "mcp"
    /\ request.msg.id.present
    /\ request.msg.method = "tools/call"
    /\ request.msg.params.name = "memory.export"
    /\ IsErrorObject(-32602)
    /\ Records(collections, Project) # {}

\* an unknown method was called on a project that holds a record
C13_WitnessMethod ==
    /\ pc = "done"
    /\ request.handler = "mcp"
    /\ request.msg.id.present
    /\ request.msg.method = "ping"
    /\ IsErrorObject(-32601)
    /\ Records(collections, Project) # {}

\* the request is to a project-scoped endpoint and names a codename
ProjectScoped ==
    \/ request.handler \in {"api_list_memories", "api_search_memories", "api_get_memory",
                            "api_create_memory", "api_update_memory", "api_delete_memory", "mcp"}
    \/ request.handler = "api_create_project" /\ request.body.codename.present

\* the outcome is the invalid-codename error of the adapter
InvalidCodenameError ==
    IF request.handler = "mcp"
    THEN /\ result.kind = "err"
         /\ result.code = -32602
         /\ response.body.present
         /\ response.body.value.error.code = -32602
    ELSE RestError(400)

\* C14: the codename check gates every project-scoped operation before any
\* collection lookup.  For a raw codename whose trimmed, lowercased form is
\* empty or has a character outside [a-z0-9_-], every REST memory endpoint,
\* POST /api/projects and the JSON-RPC endpoint return an error (HTTP 400,
\* JSON-RPC -32602) and leave the collection cache and all collections
\* unchanged; for every other codename the request is not rejected as an
\* invalid codename and touches, caches and returns records of the
\* collection of the trimmed, lowercased form only.
C14_CodenameGate ==
    [][(Served /\ ProjectScoped) =>
          IF ~ToProject
          THEN InvalidCodenameError' /\ UNCHANGED <<collections, _collections>>
          ELSE /\ ~(result'.kind = "HTTPException" /\ result'.detail = "invalid codename")
               /\ ~(result'.kind = "err" /\ result'.message = <<"invalid codename">>)
               /\ \A name \in DOMAIN collections' :
                      name # COLLECTION_PREFIX \o Project => (name \in DOMAIN collections /\ collections'[name] = collections[name])
               /\ \A c \in DOMAIN _collections' :
                      IF c = Project THEN _collections'[c] = COLLECTION_PREFIX \o Project
                      ELSE c \in DOMAIN _collections /\ _collections'[c] = _collections[c]
               /\ Range(ReturnedList') \subseteq Records(collections', Project)]_vars

\* a JSON-RPC request to the codename "!" was refused while the store holds a record
C14_Witness ==
    /\ pc = "done"
    /\ request.handler = "mcp"
    /\ request.codename = <<"!">>
    /\ InvalidCodenameError
    /\ \E name \in DOMAIN collections : collections[name] # EmptyFcn

\* POST /api/projects with the codename " A" answered with the codename "a"
C14_WitnessCreateProject ==
    /\ pc = "done"
    /\ request.handler = "api_create_project"
    /\ request.codename = <<" ", "A">>
    /\ result.kind = "return"
    /\ result.value.codename = <<"a">>
    /\ <<"a">> \in DOMAIN _collections

\* C15: when the store's enumeration of collections fails, GET /api/projects
\* does not propagate the error and returns the codenames held in the
\* in-process collection cache.
C15_EnumerationFallback ==
    (pc = "done" /\ IsRest("api_list_projects") /\ request.body.enumeration_fails) =>
        /\ result.kind = "return"
        /\ response.status = 200
        /\ Range(result.value) = DOMAIN _collections

\* what a GET /api/projects answers in the state the step leads to, for
\* either outcome of the client's enumeration
ListedNext(enumeration_fails) ==
    Range(list_project_codenames([colls |-> collections', cache |-> _collections', client |-> _client', next |-> nextId'],
                                 _TEST_MODE', enumeration_fails).ret)

\* C16: POST /api/projects is idempotent and visible: a successful call
\* returns the normalized codename, and a GET /api/projects that follows it
\* lists that codename; a call for a project that exists returns the same
\* codename and leaves the set of projects and every stored record unchanged.
C16_CreateProjectIdempotent ==
    [][(Served /\ IsRest("api_create_project") /\ ToProject) =>
          /\ result'.kind = "return"
          /\ result'.value.codename = Project
          /\ \A enumeration_fails \in BOOLEAN : Project \in ListedNext(enumeration_fails)
          /\ CollectionName(Project) \in DOMAIN collections => collections' = collections]_vars

IsResourceRead == request.handler = "mcp" /\ request.msg.method = "resources/read"

\* the request only reads: list, get, search, resources/read, memory.all,
\* or an update or delete of an id its project does not hold
IsReadOnly ==
    \/ IsList \/ IsGet \/ IsSearch \/ IsResourceRead
    \/ (IsUpdate \/ IsDelete) /\ TargetId.present /\ TargetId.value \notin DOMAIN Rows(collections, Project)

\* C17: a project comes into existence only through a first write or an
\* explicit POST /api/projects and is never removed: no request removes a
\* project, and a read-only request on a codename that has no project leaves
\* the set of existing projects and the collection cache unchanged.
C17_ReadsCreateNoProject ==
    [][Served =>
        /\ DOMAIN collections \subseteq DOMAIN collections'
        /\ (ToProject /\ IsReadOnly /\ CollectionName(Project) \notin DOMAIN collections) =>
              (DOMAIN collections' = DOMAIN collections /\ _collections' = _collections)]_vars

\* C18: non-empty content is an invariant of stored records: after any
\* sequence of create, update and delete requests through both adapters,
\* every record in every collection has content that is non-empty after
\* trimming.
C18_ContentNonEmpty ==
    \A name \in DOMAIN collections : \A i \in DOMAIN collections[name] :
        strip(collections[name][i].document) # <<>>

\* C19: after any sequence of create and update requests through either
\* adapter, every record returned by get, list or search has a tags sequence
\* in which every element is non-empty and carries no leading or trailing
\* whitespace.
C19_ReturnedTagsTrimmed ==
    pc = "done" =>
        \A i \in 1..Len(ReturnedList) : \A k \in 1..Len(ReturnedList[i].tags) :
            /\ ReturnedList[i].tags[k] # <<>>
            /\ strip(ReturnedList[i].tags[k]) = ReturnedList[i].tags[k]

\* the rows of the project the concurrent calls work on
RaceRows == Rows(collections, RaceCodename)

\* thread t's update_memory has returned a record (its handler answers success)
UpdateSucceeded(t) == threads[t].call.op = "update_memory" /\ threads[t].pc = "done" /\ threads[t].updated.present

\* thread t's update_memory found the record, then returned None (its handler answers not-found)
UpdateLostRecord(t) ==
    /\ threads[t].call.op = "update_memory"
    /\ threads[t].pc = "done"
    /\ threads[t].existing.present
    /\ ~threads[t].updated.present

\* thread t's delete_memory has returned True
DeleteSucceeded(t) == threads[t].call.op = "delete_memory" /\ threads[t].pc = "done" /\ threads[t].deleted

\* threads t and u updated the same record, t supplying only content and u only tags
ContentAndTags(t, u) ==
    /\ threads[t].call.memory_id = threads[u].call.memory_id
    /\ threads[t].call.content.present /\ ~threads[t].call.tags.present
    /\ threads[u].call.tags.present /\ ~threads[u].call.content.present

\* the record both updated is stored without one of the two supplied values
LostUpdate(t, u) ==
    /\ UpdateSucceeded(t) /\ UpdateSucceeded(u) /\ ContentAndTags(t, u)
    /\ threads[t].call.memory_id \in DOMAIN RaceRows
    /\ \/ RaceRows[threads[t].call.memory_id].document # threads[t].call.content.value
       \/ _metadata_to_tags(Some(RaceRows[threads[t].call.memory_id].metadata)) # _normalize_tags(threads[u].call.tags)

\* C20: update and delete are unlocked check-then-act sequences.  What the
\* races can do is bounded by the store's calls: a write is one call, so after
\* two successful updates, one of content and one of tags, the stored record
\* holds at least the last writer's value; an update that found its record
\* and then returned None lost it to a delete that returned True, and the
\* store's update does not bring a deleted record back.
C20_Races ==
    \A t \in DOMAIN threads :
        /\ DeleteSucceeded(t) => threads[t].call.memory_id \notin DOMAIN RaceRows
        /\ UpdateLostRecord(t) =>
              /\ threads[t].call.memory_id \notin DOMAIN RaceRows
              /\ \E d \in DOMAIN threads : DeleteSucceeded(d) /\ threads[d].call.memory_id = threads[t].call.memory_id
        /\ \A u \in DOMAIN threads :
              (UpdateSucceeded(t) /\ UpdateSucceeded(u) /\ ContentAndTags(t, u)
                    /\ threads[t].call.memory_id \in DOMAIN RaceRows) =>
                 \/ RaceRows[threads[t].call.memory_id].document = threads[t].call.content.value
                 \/ _metadata_to_tags(Some(RaceRows[threads[t].call.memory_id].metadata)) = _normalize_tags(threads[u].call.tags)

\* both races have happened: two successful updates of one record lost a
\* value, and an update of another record that passed its existence check
\* reported not-found after a concurrent delete
C20_Witness ==
    /\ \E t, u \in DOMAIN threads : LostUpdate(t, u)
    /\ \E t, d \in DOMAIN threads :
          UpdateLostRecord(t) /\ DeleteSucceeded(d) /\ threads[d].call.memory_id = threads[t].call.memory_id

\* the ids whose delete_memory has returned True
DeletedIds == {threads[t].call.memory_id : t \in {d \in DOMAIN threads : DeleteSucceeded(d)}}

\* thread t's update_memory found its record and made its write when the id
\* was no longer in the collection
StaleWrite(t) ==
    /\ threads[t].call.op = "update_memory"
    /\ threads[t].existing.present
    /\ threads[t].skipped

\* C23: a completed delete is never undone.  Once delete_memory of an id has
\* returned True the collection holds no record with that id, in the state
\* of the return and after every later step: an id that was drawn and is
\* not in the collection is not in it after any step, the write of an
\* update that passed its existence check before the delete included, and
\* store_memory writes under an id not drawn before.
C23_DeleteNotUndone ==
    [][/\ \A i \in DeletedIds \cup DeletedIds' : i \notin DOMAIN RaceRows'
       /\ \A i \in 1..nextId : i \notin DOMAIN RaceRows => i \notin DOMAIN RaceRows'
       /\ \A t \in DOMAIN threads :
              (threads'[t].stored.present /\ ~threads[t].stored.present) =>
                  (threads'[t].stored.value.id \notin 1..nextId /\ threads'[t].stored.value.id \in DOMAIN RaceRows')]_vars

\* a delete returned True, an update of the same id that had passed its
\* existence check made its write afterwards and returned None, a
\* store_memory has returned its record, and the deleted id is not in the
\* collection
C23_Witness ==
    \E d, u, c \in DOMAIN threads :
        /\ DeleteSucceeded(d)
        /\ StaleWrite(u) /\ threads[u].pc = "done"
        /\ threads[u].call.memory_id = threads[d].call.memory_id
        /\ threads[c].call.op = "store_memory" /\ threads[c].stored.present
        /\ threads[d].call.memory_id \notin DOMAIN RaceRows

\* thread t's get_collection has returned a collection
Obtained(t) == threads[t].call = "store_memory" /\ threads[t].pc \in {"add", "done"}

\* thread t has written its record
Wrote(t) == threads[t].call = "store_memory" /\ threads[t].pc = "done"

\* every collection obtained for the codename is one and the same external
\* collection project_memory_<codename>, and every record written is in the
\* collection the cache holds for the codename
SameCollection ==
    /\ \A t, u \in DOMAIN threads :
          (Obtained(t) /\ Obtained(u)) =>
              (threads[t].got = threads[u].got /\ threads[t].got.name = CollectionName(FirstCodename))
    /\ \A t \in DOMAIN threads :
          Wrote(t) => threads[t].memory_id \in DOMAIN collections[_collections[FirstCodename]]

\* C21: concurrent first access to a codename is harmless: in every
\* interleaving every handle obtained refers to the same external collection
\* project_memory_<codename>, so a record written by any of the requests is
\* visible to every later operation on the codename; and a codename in the
\* cache is never removed from it.
C21_FirstAccessHarmless ==
    [][SameCollection' /\ DOMAIN _collections \subseteq DOMAIN _collections']_vars

\* the all-records URI of the project the endpoint addresses
EndpointUri == <<"memory://project_memory/">> \o Project \o <<"/all">>

IsResourceList == request.handler = "mcp" /\ request.msg.method = "resources/list" /\ ~request.msg.params.cursor.present

\* C22: on the JSON-RPC endpoint of a valid codename, resources/list
\* returns one URI; resources/read of that URI succeeds and returns the
\* records list_all shows for the project, each once; resources/read of any
\* other URI, the all-records URI of another project included, fails with
\* error code -32002, returns no records and changes no state.
C22_ResourceRead ==
    [][(Served /\ ToProject) =>
          /\ IsResourceList =>
                /\ result'.kind = "ok"
                /\ Len(result'.value.resources) = 1
                /\ result'.value.resources[1].uri = EndpointUri
          /\ (IsResourceRead /\ request.msg.params.uri = EndpointUri) =>
                /\ result'.kind = "ok"
                /\ Len(result'.value.contents) = 1
                /\ result'.value.contents[1].uri = EndpointUri
                /\ Range(json_loads(result'.value.contents[1].text)) = Records(collections', Project)
                /\ Len(json_loads(result'.value.contents[1].text)) = Cardinality(Records(collections', Project))
                /\ request.msg.id.present => response'.body.value.result = result'.value
          /\ (IsResourceRead /\ request.msg.params.uri # EndpointUri) =>
                /\ result'.kind = "err"
                /\ result'.code = -32002
                /\ request.msg.id.present => IsErrorObject(-32002)'
                /\ UNCHANGED <<collections, _collections, _client, nextId>>]_vars

\* a resources/read of the endpoint's URI, addressed by a codename that
\* needs trimming and lowercasing, has returned a record with tags
C22_Witness ==
    /\ pc = "done" /\ IsResourceRead /\ ToProject
    /\ request.codename # Project
    /\ request.msg.params.uri = EndpointUri
    /\ result.kind = "ok"
    /\ \E i \in 1..Len(ReturnedList) : ReturnedList[i].tags # <<>>

\* a resources/read of another project's all-records URI has failed while
\* that project holds a record
C22_WitnessOtherProject ==
    /\ pc = "done" /\ IsResourceRead /\ ToProject
    /\ request.msg.params.uri # EndpointUri
    /\ \E other \in {<<"a">>, <<"b">>} :
          /\ request.msg.params.uri = <<"memory://project_memory/">> \o other \o <<"/all">>
          /\ DOMAIN Rows(collections, other) # {}
    /\ result.kind = "err"

\* C2: a tag list with no comma in any tag and no empty tag decodes from its
\* encoded form unchanged and in order; an absent or empty encoded value
\* decodes to the empty list.
NoCommaNoEmpty(T) == \A i \in 1..Len(T) : T[i] # <<>> /\ \A j \in 1..Len(T[i]) : T[i][j] # ","

C2_RoundTrip ==
    /\ (codecPc = "decoded" /\ codecRaw.present /\ NoCommaNoEmpty(codecIn)) => codecOut = codecIn
    /\ (codecPc = "decoded" /\ ~codecRaw.present) => codecOut = <<>>
    /\ (codecPc = "decoded" /\ codecRaw.present /\ codecRaw.value.tags = <<>>) => codecOut = <<>>

C2_Witness ==
    /\ codecPc = "decoded"
    /\ codecRaw.present
    /\ Len(codecIn) = 2
    /\ codecIn[1] # codecIn[2]
    /\ NoCommaNoEmpty(codecIn)
    /\ codecOut = codecIn

====
